---- MODULE Spec2Model ----
(***************************************************************************)
(* Model of the text_editor plugin: the edit normaliser/validator          *)
(* (file_ops.validate_edits), the two streaming patch appliers             *)
(* (file_ops.apply_patch and rfc_text_editor.apply_patch_impl) and the     *)
(* token-budgeted line reader (file_ops.read_file).                        *)
(*                                                                         *)
(* Text is a sequence of one-character strings; NL is the newline.         *)
(***************************************************************************)
EXTENDS Integers, Sequences, FiniteSets, TLC

\* ------------------------------------------------------------------------
\* Bounds of the model
\* ------------------------------------------------------------------------

\* longest raw edit list given to validate_edits alone
MaxRawEdits == 3

\* largest line number used in the edits given to validate_edits alone
MaxRawLine == 2

\* longest list of odd entries given to validate_edits alone
MaxOddEdits == 2

\* longest file (in lines) given to the patch appliers
MaxLines == 2

\* longest edit list given to the patch appliers
MaxEdits == 2

\* longest file (in lines) given to read_file
MaxReadLines == 3

\* largest token count of a line, and largest max_line_tokens
MaxTok == 2

\* largest max_total_read_tokens
MaxBudget == 3

\* ------------------------------------------------------------------------
\* Text
\* ------------------------------------------------------------------------

NL == "\n"

Min(S) == CHOOSE x \in S : \A y \in S : x <= y

Max(S) == CHOOSE x \in S : \A y \in S : x >= y

RECURSIVE Flat(_)
\* the concatenation of a sequence of texts
Flat(ss) == IF ss = <<>> THEN <<>> ELSE Head(ss) \o Flat(Tail(ss))

\* str.endswith("\n")
EndsWithNL(s) == Len(s) > 0 /\ s[Len(s)] = NL

\* str.count("\n")
CountNL(s) == Cardinality({i \in 1..Len(s) : s[i] = NL})

\* file iteration / readlines(): the lines of a text, each with its newline
\* (the last one without, when the text does not end in a newline)
ReadLines(s) ==
    LET ends == {i \in 1..Len(s) : s[i] = NL}
        k    == Cardinality(ends)
        end(j) == CHOOSE i \in ends : Cardinality({h \in ends : h <= i}) = j
        start(j) == IF j = 1 THEN 1 ELSE end(j - 1) + 1
        full == [j \in 1..k |-> SubSeq(s, start(j), end(j))]
        last == IF k = 0 THEN 0 ELSE end(k)
    IN  IF last < Len(s) THEN Append(full, SubSeq(s, last + 1, Len(s)))
        ELSE full

\* str.rstrip("\n")
StripNL(s) == IF EndsWithNL(s) THEN SubSeq(s, 1, Len(s) - 1) ELSE s

\* _count_content_lines
count_content_lines(content) ==
    CountNL(content) + (IF content # <<>> /\ ~EndsWithNL(content) THEN 1 ELSE 0)

\* ------------------------------------------------------------------------
\* validate_edits
\* ------------------------------------------------------------------------

\* A raw value of a field of an edit: an integer, a key that is absent,
\* null, or a string that is no number.
IntVal(n) == [tag |-> "int", v |-> n]
Missing == [tag |-> "missing", v |-> 0]
Null == [tag |-> "null", v |-> 0]
Word == [tag |-> "str", v |-> 0]

\* int(e.get(key, -1)): the integer, or the exception int() raises
IntOf(x) ==
    CASE x.tag = "int" -> [raised |-> "", v |-> x.v]
      [] x.tag = "missing" -> [raised |-> "", v |-> -1]
      [] x.tag = "null" -> [raised |-> "TypeError", v |-> 0]
      [] OTHER -> [raised |-> "ValueError", v |-> 0]

NoEdit == [from |-> 0, to |-> 0, content |-> <<>>, insert |-> FALSE]

\* the body of the loop over the raw edits, for one entry e
ParseEdit(e) ==
    IF ~e.dict THEN [err |-> "invalid edit entry", raised |-> "", edit |-> NoEdit]
    ELSE LET f == IntOf(e.from) IN
         IF f.raised # "" THEN [err |-> "", raised |-> f.raised, edit |-> NoEdit]
         ELSE IF f.v < 0 THEN [err |-> "edit missing from", raised |-> "", edit |-> NoEdit]
         ELSE LET t == IntOf(e.to) IN
              IF t.raised # "" THEN [err |-> "", raised |-> t.raised, edit |-> NoEdit]
              ELSE LET is_insert == t.v < 0 \/ t.v < f.v IN
                   [err |-> "", raised |-> "",
                    edit |-> [from |-> f.v,
                              to |-> IF is_insert THEN f.v - 1 ELSE t.v,
                              content |-> e.content,
                              insert |-> is_insert]]

\* (the comparison of an unstable sort: equal keys change places)
KeyLeqUnstable(a, b) ==
    \/ a.from < b.from
    \/ a.from = b.from /\ (IF a.insert THEN 0 ELSE 1) < (IF b.insert THEN 0 ELSE 1)

\* the sort key (from, 0 if insert else 1), compared as tuples
KeyLeq(a, b) ==
    \/ a.from < b.from
    \/ a.from = b.from /\ (IF a.insert THEN 0 ELSE 1) <= (IF b.insert THEN 0 ELSE 1)

\* x put into the sorted list s after every element whose key is not greater
InsertSorted(x, s) ==
    LET k == Cardinality({i \in 1..Len(s) : KeyLeq(s[i], x)})
    IN  SubSeq(s, 1, k) \o <<x>> \o SubSeq(s, k + 1, Len(s))

RECURSIVE SortFrom(_, _)
SortFrom(todo, done) ==
    IF todo = <<>> THEN done
    ELSE SortFrom(Tail(todo), InsertSorted(Head(todo), done))

\* list.sort(key=...): a stable sort
SortEdits(parsed) == SortFrom(parsed, <<>>)

\* (the scan with < in place of <=)
OverlapsStrict(parsed) ==
    {i \in 2..Len(parsed) :
        ~parsed[i - 1].insert /\ parsed[i].from < parsed[i - 1].to}

\* the scan of adjacent pairs: the positions i whose pair (i-1, i) overlaps
Overlaps(parsed) ==
    {i \in 2..Len(parsed) :
        ~parsed[i - 1].insert /\ parsed[i].from <= parsed[i - 1].to}

Rejected(err) == [parsed |-> <<>>, err |-> err, raised |-> ""]

Raised(exc) == [parsed |-> <<>>, err |-> "", raised |-> exc]

\* validate_edits(edits): (parsed, err), or the exception that leaves it
validate_edits(edits) ==
    IF ~edits.list \/ edits.items = <<>> THEN Rejected("edits array is required")
    ELSE LET each == [i \in 1..Len(edits.items) |-> ParseEdit(edits.items[i])]
             bad  == {i \in 1..Len(each) : each[i].err # "" \/ each[i].raised # ""}
         IN  IF bad # {}
             THEN LET b == each[Min(bad)]
                  IN  IF b.raised # "" THEN Raised(b.raised) ELSE Rejected(b.err)
             ELSE LET parsed == SortEdits([i \in 1..Len(each) |-> each[i].edit])
                  IN  IF Overlaps(parsed) # {}
                      THEN Rejected("overlapping edits")
                      ELSE [parsed |-> parsed, err |-> "", raised |-> ""]

\* ------------------------------------------------------------------------
\* The streaming appliers: file_ops.apply_patch ("local") and
\* rfc_text_editor.apply_patch_impl ("remote")
\* ------------------------------------------------------------------------

\* (a cursor that starts at 1 in both appliers)
FirstLineNoOne(v) == 1

\* line_no = 0 in apply_patch, line_no = 1 in apply_patch_impl
FirstLineNo(v) == IF v = "remote" THEN 1 ELSE 0

\* the loop that appends "\n" to contents that lack it: apply_patch_impl only
Canonicalize(v, es) ==
    IF v = "remote"
    THEN [j \in 1..Len(es) |->
            IF es[j].content # <<>> /\ ~EndsWithNL(es[j].content)
            THEN [es[j] EXCEPT !.content = @ \o <<NL>>]
            ELSE es[j]]
    ELSE es

\* the state of one run: the locals and what has reached the temporary file
Start(v) ==
    [edit_idx |-> 0, line_no |-> FirstLineNo(v), total_written |-> 0,
     tmp |-> <<>>, log |-> <<>>]

\* if edit["content"]: dst.write(edit["content"]); total_written += ...
Emit(st, es) ==
    LET e == es[st.edit_idx + 1] IN
    IF e.content # <<>>
    THEN [st EXCEPT !.tmp = @ \o e.content,
                    !.total_written = @ + count_content_lines(e.content),
                    !.log = Append(@, [kind |-> "edit", idx |-> st.edit_idx + 1])]
    ELSE st

RECURSIVE Inserts(_, _)
\* the while loop over the inserts that target the current line
Inserts(st, es) ==
    IF /\ st.edit_idx < Len(es)
       /\ es[st.edit_idx + 1].insert
       /\ es[st.edit_idx + 1].from = st.line_no
    THEN Inserts([Emit(st, es) EXCEPT !.edit_idx = @ + 1], es)
    ELSE st

\* dst.write(raw_line); total_written += 1; line_no += 1
CopyLine(st, raw_line, pos) ==
    [st EXCEPT !.tmp = @ \o raw_line,
               !.total_written = @ + 1,
               !.line_no = @ + 1,
               !.log = Append(@, [kind |-> "line", idx |-> pos])]

\* (a range whose last line is kept: line_no < to in place of line_no <= to)
InRangeExclusive(e, line_no) == e.from <= line_no /\ line_no < e.to

\* edit["from"] <= line_no <= edit["to"]
InRange(e, line_no) == e.from <= line_no /\ line_no <= e.to

\* the body of "for raw_line in src", for the line at position pos (from 1)
StreamLine(st, raw_line, pos, es) ==
    LET s1 == Inserts(st, es) IN
    IF /\ s1.edit_idx < Len(es)
       /\ ~es[s1.edit_idx + 1].insert
       /\ InRange(es[s1.edit_idx + 1], s1.line_no)
    THEN LET e  == es[s1.edit_idx + 1]
             s2 == IF s1.line_no = e.from THEN Emit(s1, es) ELSE s1
         IN  [s2 EXCEPT !.edit_idx = IF s1.line_no = e.to THEN @ + 1 ELSE @,
                        !.line_no = @ + 1]
    ELSE CopyLine(s1, raw_line, pos)

\* (no flush: the edits left after the last line are dropped)
FlushNone(st, es) == [st EXCEPT !.edit_idx = Len(es)]

RECURSIVE Flush(_, _)
\* the while loop over the edits left after the last line
Flush(st, es) ==
    IF st.edit_idx < Len(es)
    THEN Flush([Emit(st, es) EXCEPT !.edit_idx = @ + 1], es)
    ELSE st

RECURSIVE StreamFrom(_, _, _, _)
StreamFrom(st, lines, pos, es) ==
    IF pos > Len(lines) THEN Flush(st, es)
    ELSE StreamFrom(StreamLine(st, lines[pos], pos, es), lines, pos + 1, es)

\* a whole run of the applier v over the text of the file, when nothing fails
ApplyAll(v, text, es) == StreamFrom(Start(v), ReadLines(text), 1, Canonicalize(v, es))

\* ------------------------------------------------------------------------
\* State
\* ------------------------------------------------------------------------

VARIABLES
    pc,             \* where the operation under way stands
    raw,            \* the edits argument as the caller gave it
    vresult,        \* what validate_edits returned (or raised)
    variant,        \* "local": apply_patch, "remote": apply_patch_impl
    orig,           \* the text of the target file before the operation
    file,           \* the text at the target path
    tmp_exists,     \* whether the temporary file exists
    tmp,            \* the text of the temporary file
    edits,          \* the edits argument of the applier
    src_pos,        \* how many lines of src the for loop has consumed
    edit_idx, line_no, total_written,   \* the applier's locals
    log,            \* what was written to dst, in order: lines and edits
    result,         \* what the applier returned, or the exception it raised
    req,            \* the file and the arguments of a call of read_file
    rd              \* the locals of read_file and what it returned

vars == <<pc, raw, vresult, variant, orig, file, tmp_exists, tmp, edits,
          src_pos, edit_idx, line_no, total_written, log, result, req, rd>>

NoResult == [total_lines |-> 0, error |-> "", raised |-> FALSE]

NoValidation == [parsed |-> <<>>, err |-> "", raised |-> ""]

\* ------------------------------------------------------------------------
\* Inputs
\* ------------------------------------------------------------------------

LineChar == <<"a", "b", "c", "d", "e", "f">>

\* a file of n lines; its last line ends in a newline iff nl
FileText(n, nl) ==
    LET all == Flat([k \in 1..n |-> <<LineChar[k], NL>>])
    IN  IF n > 0 /\ ~nl THEN SubSeq(all, 1, Len(all) - 1) ELSE all

Files == {FileText(n, nl) : n \in 0..MaxLines, nl \in BOOLEAN}

Contents == {<<>>, <<"X", NL>>, <<"Y">>}

RawEdit(f, t, c) == [dict |-> TRUE, from |-> f, to |-> t, content |-> c]

\* the last line of the longest range that starts at f: ranges of one or two
\* lines, up to one line past the longest file
LastTo(f) == Min({f + 1, MaxLines + 1})

\* well-formed edits for the appliers: from in 0..MaxLines+1 (0 and one past
\* the end included), to absent (an insert) or in from..LastTo(from)
PatchEdits ==
    {RawEdit(IntVal(f), Missing, c) : f \in 0..(MaxLines + 1), c \in Contents}
    \cup
    UNION {{RawEdit(IntVal(f), IntVal(t), c) : t \in f..LastTo(f), c \in Contents}
             : f \in 0..(MaxLines + 1)}

\* well-formed edits for validate_edits alone (the content plays no part)
WellFormedEdits ==
    {RawEdit(IntVal(f), IntVal(t), <<"X", NL>>) : f \in 0..MaxRawLine, t \in -1..MaxRawLine}

NotADict == [dict |-> FALSE, from |-> Missing, to |-> Missing, content |-> <<>>]

\* entries with something wrong, or unusual, about them
OddEdits ==
    {NotADict}
    \cup {RawEdit(f, t, <<"X", NL>>) :
            f \in {Missing, Null, Word, IntVal(-1), IntVal(1)},
            t \in {Missing, Null, Word, IntVal(1)}}

NotAList == [list |-> FALSE, items |-> <<>>]

EmptyList == [list |-> TRUE, items |-> <<>>]

\* ------------------------------------------------------------------------
\* validate_edits on its own
\* ------------------------------------------------------------------------

NoRequest ==
    [all_lines |-> <<>>, line_from |-> 0, line_to |-> 0, max_line_tokens |-> 0,
     default_line_count |-> 0, max_total_read_tokens |-> 0]

NoRead ==
    [total_lines |-> 0, line_from |-> 0, line_to |-> 0, i |-> 0,
     output_lines |-> <<>>, cropped_lines |-> <<>>, running_tokens |-> 0,
     trimmed_by_total |-> FALSE, trimmed_at |-> -1]

ReadIdle == req = NoRequest /\ rd = NoRead

Idle ==
    /\ vresult = NoValidation
    /\ variant = "none"
    /\ orig = <<>>
    /\ file = <<>>
    /\ tmp_exists = FALSE
    /\ tmp = <<>>
    /\ edits = <<>>
    /\ src_pos = 0
    /\ edit_idx = 0
    /\ line_no = 0
    /\ total_written = 0
    /\ log = <<>>
    /\ result = NoResult

\* validate_edits is given: no list, an empty list, a list of at most
\* MaxRawEdits well-formed edits, or a list of at most MaxOddEdits odd entries
InitValidate ==
    /\ pc = "validate"
    /\ \/ raw \in {NotAList, EmptyList}
       \/ \E k \in 1..MaxRawEdits : \E l \in [1..k -> WellFormedEdits] :
             raw = [list |-> TRUE, items |-> l]
       \/ \E k \in 1..MaxOddEdits : \E l \in [1..k -> OddEdits] :
             raw = [list |-> TRUE, items |-> l]
    /\ Idle
    /\ ReadIdle

\* a call of validate_edits(raw)
Validate ==
    /\ pc = "validate"
    /\ vresult' = validate_edits(raw)
    /\ pc' = IF vresult'.raised # "" THEN "raised" ELSE "validated"
    /\ UNCHANGED <<req, rd, raw, variant, orig, file, tmp_exists, tmp, edits, src_pos,
                   edit_idx, line_no, total_written, log, result>>

NextValidate == Validate

SpecValidate == InitValidate /\ [][NextValidate]_vars

\* ------------------------------------------------------------------------
\* The patch operation: validate_edits, then the applier, step by step
\* ------------------------------------------------------------------------

\* the appliers are given a list of at most MaxEdits well-formed edits in
\* which from never decreases (validate_edits sorts by from; the order of the
\* edits of one line, which the sort keeps or changes, is free)
InitPatch ==
    /\ pc = "start"
    /\ \E k \in 1..MaxEdits : \E l \in [1..k -> PatchEdits] :
          /\ \A i \in 1..(k - 1) : l[i].from.v <= l[i + 1].from.v
          /\ raw = [list |-> TRUE, items |-> l]
    /\ variant \in {"local", "remote"}
    /\ orig \in Files
    /\ file = orig
    /\ vresult = NoValidation
    /\ tmp_exists = FALSE
    /\ tmp = <<>>
    /\ edits = <<>>
    /\ src_pos = 0
    /\ edit_idx = 0
    /\ line_no = 0
    /\ total_written = 0
    /\ log = <<>>
    /\ result = NoResult
    /\ ReadIdle

\* parsed, err = validate_edits(edits); if err: return the error
PatchValidate ==
    /\ pc = "start"
    /\ vresult' = validate_edits(raw)
    /\ IF vresult'.raised # "" \/ vresult'.err # ""
       THEN /\ pc' = "rejected"
            /\ edits' = edits
       ELSE /\ pc' = "apply"
            /\ edits' = vresult'.parsed
    /\ UNCHANGED <<req, rd, raw, variant, orig, file, tmp_exists, tmp, src_pos,
                   edit_idx, line_no, total_written, log, result>>

\* the applier up to the try: (apply_patch_impl: the newline loop, then)
\* tempfile.mkstemp creates the temporary file
Mkstemp ==
    /\ pc = "apply"
    /\ edits' = Canonicalize(variant, edits)
    /\ tmp_exists' = TRUE
    /\ tmp' = <<>>
    /\ pc' = "open"
    /\ UNCHANGED <<req, rd, raw, vresult, variant, orig, file, src_pos,
                   edit_idx, line_no, total_written, log, result>>

\* tempfile.mkstemp fails: it stands before the try, the exception leaves
\* the applier and no temporary file was created
MkstempFails ==
    /\ pc = "apply"
    /\ edits' = Canonicalize(variant, edits)
    /\ result' = [total_lines |-> 0, error |-> "exc", raised |-> TRUE]
    /\ pc' = "failed"
    /\ UNCHANGED <<req, rd, raw, vresult, variant, orig, file, tmp_exists, tmp, src_pos,
                   edit_idx, line_no, total_written, log>>

\* the with statement opens src and dst; the locals are set
OpenFiles ==
    /\ pc = "open"
    /\ src_pos' = 0
    /\ edit_idx' = Start(variant).edit_idx
    /\ line_no' = Start(variant).line_no
    /\ total_written' = Start(variant).total_written
    /\ log' = Start(variant).log
    /\ pc' = "stream"
    /\ UNCHANGED <<req, rd, raw, vresult, variant, orig, file, tmp_exists, tmp, edits, result>>

Locals == [edit_idx |-> edit_idx, line_no |-> line_no,
           total_written |-> total_written, tmp |-> tmp, log |-> log]

SetLocals(st) ==
    /\ edit_idx' = st.edit_idx
    /\ line_no' = st.line_no
    /\ total_written' = st.total_written
    /\ tmp' = st.tmp
    /\ log' = st.log

\* one iteration of "for raw_line in src"
StreamStep ==
    /\ pc = "stream"
    /\ src_pos < Len(ReadLines(file))
    /\ SetLocals(StreamLine(Locals, ReadLines(file)[src_pos + 1], src_pos + 1, edits))
    /\ src_pos' = src_pos + 1
    /\ UNCHANGED <<req, rd, pc, raw, vresult, variant, orig, file, tmp_exists, edits, result>>

\* src is exhausted: the loop over the remaining edits, then the with
\* statement closes both files
FlushStep ==
    /\ pc = "stream"
    /\ src_pos = Len(ReadLines(file))
    /\ SetLocals(Flush(Locals, edits))
    /\ pc' = "move"
    /\ UNCHANGED <<req, rd, raw, vresult, variant, orig, file, tmp_exists, edits, src_pos, result>>

\* shutil.move(tmp_path, path); return total_written
Move ==
    /\ pc = "move"
    /\ file' = tmp
    /\ tmp_exists' = FALSE
    /\ tmp' = <<>>
    /\ result' = [total_lines |-> total_written, error |-> "", raised |-> FALSE]
    /\ pc' = "done"
    /\ UNCHANGED <<req, rd, raw, vresult, variant, orig, edits, src_pos,
                   edit_idx, line_no, total_written, log>>

\* (an except clause that leaves the temporary file behind)
HandlerKeepsTmp(exists) == exists

\* if os.path.exists(tmp_path): os.unlink(tmp_path): whether the temporary
\* file exists after the except clause
HandlerUnlink(exists) == FALSE

\* a statement inside the try raises (open, a read, a write, the close, the
\* move) and the except clause runs: unlink, then raise (apply_patch) or
\* return the error (apply_patch_impl); the locals are gone
Fail ==
    /\ pc \in {"open", "stream", "move"}
    /\ tmp_exists' = HandlerUnlink(tmp_exists)
    /\ tmp' = IF tmp_exists' THEN tmp ELSE <<>>
    /\ result' = [total_lines |-> 0, error |-> "exc", raised |-> variant = "local"]
    /\ src_pos' = 0
    /\ edit_idx' = 0
    /\ line_no' = 0
    /\ total_written' = 0
    /\ log' = <<>>
    /\ pc' = "failed"
    /\ UNCHANGED <<req, rd, raw, vresult, variant, orig, file, edits>>

NextPatch ==
    \/ PatchValidate
    \/ Mkstemp
    \/ MkstempFails
    \/ OpenFiles
    \/ StreamStep
    \/ FlushStep
    \/ Move
    \/ Fail

SpecPatch == InitPatch /\ [][NextPatch]_vars

\* ------------------------------------------------------------------------
\* read_file, one loop iteration at a time.  A line of the file is its token
\* count (tokens.count_tokens of the stripped line); an output line is the
\* number printed in front of it, the position (from 1) of the file's line
\* it shows, and whether it was cropped.
\* ------------------------------------------------------------------------

\* the sequences of at most n elements of S
SeqsUpTo(S, n) == UNION {[1..k -> S] : k \in 0..n}

\* line_to = 0 stands for an argument that is 0, None or left out: "not line_to"
Requests(n) ==
    [all_lines : SeqsUpTo(0..MaxTok, n),
     line_from : -1..(MaxReadLines + 1),
     line_to : 0..(MaxReadLines + 1),
     max_line_tokens : 1..MaxTok,
     default_line_count : {1, 2},
     max_total_read_tokens : 0..MaxBudget]

InitRead ==
    /\ pc = "read"
    /\ req \in Requests(MaxReadLines)
    /\ rd = NoRead
    /\ raw = EmptyList
    /\ Idle

\* all_lines[line_from:line_to] for 0 <= line_from, 0 <= line_to <= len: the
\* number of lines of the slice
SliceLen(lf, lt) == IF lt > lf THEN lt - lf ELSE 0

\* total_lines, the clamping of line_from and line_to, and the locals
ReadStart ==
    /\ pc = "read"
    /\ LET total == Len(req.all_lines)
           lf == Max({req.line_from, 0})
           lt0 == IF req.line_to = 0
                  THEN Min({lf + req.default_line_count, total})
                  ELSE req.line_to
           lt == Min({lt0, total})
       IN  rd' = [NoRead EXCEPT !.total_lines = total, !.line_from = lf, !.line_to = lt]
    /\ pc' = "loop"
    /\ UNCHANGED <<req, raw, vresult, variant, orig, file, tmp_exists, tmp, edits,
                   src_pos, edit_idx, line_no, total_written, log, result>>

\* len(selected)
SelectedLen == SliceLen(rd.line_from, rd.line_to)

\* (a budget that refuses the line that fills it exactly)
OverBudgetAtLimit(running, tok, budget) == running + tok >= budget

\* running_tokens + line_tok > max_total_read_tokens
OverBudget(running, tok, budget) == running + tok > budget

\* actual_end = line_from + len(output_lines)
ActualEnd(lf, n) == lf + n

\* one iteration of "for i, raw_line in enumerate(selected)"
ReadLine ==
    /\ pc = "loop"
    /\ rd.i < SelectedLen
    /\ ~rd.trimmed_by_total
    /\ LET no == rd.line_from + rd.i
           line_tok == req.all_lines[rd.line_from + rd.i + 1]
           crop == line_tok > req.max_line_tokens
           tok == IF crop THEN req.max_line_tokens ELSE line_tok
           cropped == IF crop THEN Append(rd.cropped_lines, no) ELSE rd.cropped_lines
       IN  IF OverBudget(rd.running_tokens, tok, req.max_total_read_tokens)
           THEN rd' = [rd EXCEPT !.cropped_lines = cropped,
                                 !.trimmed_by_total = TRUE]
           ELSE rd' = [rd EXCEPT !.cropped_lines = cropped,
                                 !.running_tokens = @ + tok,
                                 !.output_lines =
                                     Append(@, [no |-> no,
                                                pos |-> rd.line_from + rd.i + 1,
                                                cropped |-> crop]),
                                 !.i = @ + 1]
    /\ UNCHANGED <<pc, req, raw, vresult, variant, orig, file, tmp_exists, tmp, edits,
                   src_pos, edit_idx, line_no, total_written, log, result>>

\* after the loop: the warnings and the ReadResult
ReadFinish ==
    /\ pc = "loop"
    /\ rd.i = SelectedLen \/ rd.trimmed_by_total
    /\ rd' = [rd EXCEPT !.trimmed_at =
                 IF rd.trimmed_by_total
                 THEN ActualEnd(rd.line_from, Len(rd.output_lines))
                 ELSE -1]
    /\ pc' = "read_done"
    /\ UNCHANGED <<req, raw, vresult, variant, orig, file, tmp_exists, tmp, edits,
                   src_pos, edit_idx, line_no, total_written, log, result>>

NextRead ==
    \/ ReadStart
    \/ ReadLine
    \/ ReadFinish

SpecRead == InitRead /\ [][NextRead]_vars

\* ------------------------------------------------------------------------
\* read_file, then a patch of file_ops that addresses one of the lines by
\* the number read_file printed in front of it
\* ------------------------------------------------------------------------

\* read_file is called on a file of Files: every line costs one token and
\* none is cropped; the window and the budget are free
InitReadPatch ==
    /\ pc = "read"
    /\ variant = "local"
    /\ orig \in Files
    /\ file = orig
    /\ \E lf \in -1..MaxLines, lt \in 0..(MaxLines + 1), d \in {1, 2},
          b \in 0..MaxBudget :
          req = [all_lines |-> [j \in 1..Len(ReadLines(orig)) |-> 1],
                 line_from |-> lf,
                 line_to |-> lt,
                 max_line_tokens |-> MaxTok,
                 default_line_count |-> d,
                 max_total_read_tokens |-> b]
    /\ rd = NoRead
    /\ raw = EmptyList
    /\ vresult = NoValidation
    /\ tmp_exists = FALSE
    /\ tmp = <<>>
    /\ edits = <<>>
    /\ src_pos = 0
    /\ edit_idx = 0
    /\ line_no = 0
    /\ total_written = 0
    /\ log = <<>>
    /\ result = NoResult

\* the caller takes a number k that read_file printed and asks for one edit:
\* a replace {from: k, to: k} or an insert {from: k}
ChooseEdit ==
    /\ pc = "read_done"
    /\ variant = "local"
    /\ \E o \in 1..Len(rd.output_lines), c \in Contents, ins \in BOOLEAN :
          LET k == rd.output_lines[o].no
          IN  raw' = [list |-> TRUE,
                      items |-> <<RawEdit(IntVal(k),
                                          IF ins THEN Missing ELSE IntVal(k), c)>>]
    /\ pc' = "start"
    /\ UNCHANGED <<req, rd, vresult, variant, orig, file, tmp_exists, tmp, edits,
                   src_pos, edit_idx, line_no, total_written, log, result>>

NextReadPatch ==
    \/ ReadStart
    \/ ReadLine
    \/ ReadFinish
    \/ ChooseEdit
    \/ PatchValidate
    \/ Mkstemp
    \/ MkstempFails
    \/ OpenFiles
    \/ StreamStep
    \/ FlushStep
    \/ Move
    \/ Fail

SpecReadPatch == InitReadPatch /\ [][NextReadPatch]_vars

\* ------------------------------------------------------------------------
\* Claims about validate_edits
\* ------------------------------------------------------------------------

\* an entry that asks for a replace or delete of the lines from..to
IsReplaceRaw(e) ==
    /\ e.dict /\ e.from.tag = "int" /\ e.to.tag = "int"
    /\ e.from.v >= 0 /\ e.to.v >= e.from.v

\* an entry that asks for an insert before the line from
IsInsertRaw(e) ==
    /\ e.dict /\ e.from.tag = "int" /\ e.from.v >= 0
    /\ \/ e.to.tag = "missing"
       \/ e.to.tag = "int" /\ e.to.v < e.from.v

AllEditsRaw(r) ==
    /\ r.list /\ r.items # <<>>
    /\ \A i \in 1..Len(r.items) : IsReplaceRaw(r.items[i]) \/ IsInsertRaw(r.items[i])

\* two replace/delete entries of r whose inclusive ranges share a line
OverlappingPairs(r) ==
    {p \in (1..Len(r.items)) \X (1..Len(r.items)) :
        /\ p[1] # p[2]
        /\ IsReplaceRaw(r.items[p[1]]) /\ IsReplaceRaw(r.items[p[2]])
        /\ r.items[p[1]].from.v <= r.items[p[2]].to.v
        /\ r.items[p[2]].from.v <= r.items[p[1]].to.v}

\* C1: validate_edits rejects, with the overlap error and an empty list, every
\* list of edits holding two replace/delete edits whose inclusive ranges share
\* a line, in any input order and whatever else the list holds; and it accepts
\* every list made of inserts only, also when several target the same line.
C1_OverlapRejected ==
    (pc \in {"validated", "raised"} /\ AllEditsRaw(raw)) =>
        /\ vresult.raised = ""
        /\ OverlappingPairs(raw) # {} =>
              /\ vresult.parsed = <<>>
              /\ vresult.err = "overlapping edits"
        /\ (\A i \in 1..Len(raw.items) : IsInsertRaw(raw.items[i])) =>
              /\ vresult.err = ""
              /\ Len(vresult.parsed) = Len(raw.items)
              /\ \A j \in 1..Len(vresult.parsed) : vresult.parsed[j].insert

\* a rejected list of three: two overlapping replaces given in descending
\* order of from, and an insert between the two starts
C1_Witness ==
    /\ pc = "validated" /\ AllEditsRaw(raw) /\ Len(raw.items) = 3
    /\ vresult.err = "overlapping edits"
    /\ \E p \in OverlappingPairs(raw) :
          /\ p[1] < p[2]
          /\ raw.items[p[1]].from.v > raw.items[p[2]].from.v
          /\ \E k \in 1..3 : /\ IsInsertRaw(raw.items[k])
                             /\ raw.items[k].from.v > raw.items[p[2]].from.v
                             /\ raw.items[k].from.v <= raw.items[p[1]].from.v

\* an input the claim C9 lists: not a list, empty, an entry that is no record,
\* a from that is missing, negative or no integer, a to that is no integer
Malformed(r) ==
    \/ ~r.list
    \/ r.items = <<>>
    \/ \E i \in 1..Len(r.items) :
          LET e == r.items[i] IN
          \/ ~e.dict
          \/ e.from.tag # "int"
          \/ e.from.tag = "int" /\ e.from.v < 0
          \/ e.to.tag \in {"null", "str"}

\* C9: for every malformed input validate_edits returns an empty edit list and
\* a non-empty error string, and it never raises an exception to its caller.
C9_ErrorsAreValues ==
    (pc \in {"validated", "raised"} /\ Malformed(raw)) =>
        /\ vresult.raised = ""
        /\ vresult.parsed = <<>>
        /\ vresult.err # ""

\* ------------------------------------------------------------------------
\* Claims about the appliers
\* ------------------------------------------------------------------------

\* the number of lines of the original file
OrigCount == Len(ReadLines(orig))

\* the lines of a text without their newlines
TextLines(s) == [j \in 1..Len(ReadLines(s)) |-> StripNL(ReadLines(s)[j])]

\* the text a run of the applier v leaves at the target when nothing fails
Patched == ApplyAll(variant, orig, vresult.parsed).tmp

\* C2: the text at the target path is at every moment the whole original
\* text or the whole patched text; and once a failure of the applier has
\* been reported, the target holds the original text and the temporary
\* file is gone.
C2_CrashSafe ==
    /\ \/ file = orig
       \/ pc = "done" /\ file = Patched
    /\ pc = "failed" => (file = orig /\ ~tmp_exists)

\* a failure inside the try of apply_patch_impl, for a patch that would have
\* changed the file
C2_Witness ==
    /\ pc = "failed" /\ variant = "remote"
    /\ result.error # "" /\ ~result.raised
    /\ orig # <<>> /\ Patched # orig

\* what C3 expects of a file with the lines ls under the replace/delete
\* edits es: for each original line k, the content of the edit that starts
\* at k, nothing for another line of a range, the line itself otherwise
ExpectedReplace(ls, es) ==
    Flat([k \in 1..Len(ls) |->
            IF \E j \in 1..Len(es) : es[j].from = k
            THEN TextLines(es[CHOOSE j \in 1..Len(es) : es[j].from = k].content)
            ELSE IF \E j \in 1..Len(es) : es[j].from <= k /\ k <= es[j].to
                 THEN <<>>
                 ELSE <<ls[k]>>])

\* C3: apply_patch_impl, given a validated list of replace/delete edits with
\* 1 <= from <= to <= n on a file of n lines, writes the original with the
\* lines from..to of each edit removed and the edit's content in their place
\* (nothing when it is empty), every other line kept once and in order.
C3_ReplaceSemantics ==
    (/\ pc = "done" /\ variant = "remote"
     /\ \A j \in 1..Len(vresult.parsed) :
           LET e == vresult.parsed[j] IN
           ~e.insert /\ 1 <= e.from /\ e.from <= e.to /\ e.to <= OrigCount)
    => TextLines(file) = ExpectedReplace(TextLines(orig), vresult.parsed)

\* a delete and a replace applied in one run
C3_Witness ==
    /\ pc = "done" /\ variant = "remote" /\ Len(vresult.parsed) = 2
    /\ \A j \in 1..2 :
          LET e == vresult.parsed[j] IN
          ~e.insert /\ 1 <= e.from /\ e.from <= e.to /\ e.to <= OrigCount
    /\ vresult.parsed[1].content = <<>>
    /\ vresult.parsed[2].content # <<>>

\* the contents, in input order, of the raw inserts before line k
InsertedBefore(k) ==
    LET at == SelectSeq(raw.items, LAMBDA e : e.from.v = k)
    IN  Flat([i \in 1..Len(at) |-> TextLines(at[i].content)])

\* C4: apply_patch_impl, given a validated list of inserts with
\* 1 <= from <= n on a file of n lines, keeps the n lines in order and puts
\* each insert's content immediately before the original line from; the
\* inserts of one line appear in the order of the input list.
C4_InsertSemantics ==
    (/\ pc = "done" /\ variant = "remote"
     /\ \A j \in 1..Len(vresult.parsed) :
           LET e == vresult.parsed[j] IN
           e.insert /\ 1 <= e.from /\ e.from <= OrigCount)
    => TextLines(file) =
          Flat([k \in 1..OrigCount |-> InsertedBefore(k) \o <<TextLines(orig)[k]>>])

\* two inserts with different contents before the same line
C4_Witness ==
    /\ pc = "done" /\ variant = "remote" /\ Len(vresult.parsed) = 2
    /\ \A j \in 1..2 : vresult.parsed[j].insert
    /\ vresult.parsed[1].from = vresult.parsed[2].from
    /\ 1 <= vresult.parsed[1].from /\ vresult.parsed[1].from <= OrigCount
    /\ vresult.parsed[1].content # <<>>
    /\ vresult.parsed[2].content # <<>>
    /\ vresult.parsed[1].content # vresult.parsed[2].content

\* the text of what the log says was written
LogText(lg, ls, es) ==
    Flat([i \in 1..Len(lg) |->
            IF lg[i].kind = "line" THEN ls[lg[i].idx] ELSE es[lg[i].idx].content])

\* the edits past the end of the file that have something to write
PastEnd == {j \in 1..Len(edits) : edits[j].from > OrigCount /\ edits[j].content # <<>>}

\* the log entries of the edits in the set J, in list order
EditEntries(J) ==
    LET all == [j \in 1..Len(edits) |-> [kind |-> "edit", idx |-> j]]
    IN  SelectSeq(all, LAMBDA x : x.idx \in J)

\* C5: both appliers end without error, and the content of the edits whose
\* from is greater than the number n of lines (for apply_patch_impl, with the
\* newline it appends) is written once each, in list order, after everything
\* else; when every edit is such an edit, the n original lines are copied
\* unchanged before that content.
C5_AppendPastEnd ==
    pc = "done" =>
        LET m == Cardinality(PastEnd)
            k == Len(log) - m
        IN  /\ result.error = "" /\ ~result.raised
            /\ file = LogText(log, ReadLines(orig), edits)
            /\ k >= 0
            /\ SubSeq(log, k + 1, Len(log)) = EditEntries(PastEnd)
            /\ \A i \in 1..k : ~(log[i].kind = "edit" /\ log[i].idx \in PastEnd)
            /\ (\A j \in 1..Len(edits) : edits[j].from > OrigCount) =>
                  /\ SubSeq(log, 1, k) =
                        [i \in 1..OrigCount |-> [kind |-> "line", idx |-> i]]
                  /\ file = orig \o Flat([j \in 1..Len(edits) |-> edits[j].content])

\* an edit past the end, with content, after an edit inside the file
C5_Witness ==
    /\ pc = "done" /\ OrigCount >= 1 /\ Len(edits) = 2
    /\ edits[1].from <= OrigCount /\ edits[1].from >= 1
    /\ 2 \in PastEnd
    /\ file # orig

\* an edit list that starts no range before line 1 and ends none after the
\* last line (the lists the cases of C11 and C13 are not about)
PlainEdits ==
    \A j \in 1..Len(vresult.parsed) :
        LET e == vresult.parsed[j] IN
        e.from >= 1 /\ (e.insert \/ e.to <= OrigCount \/ e.from > OrigCount)

\* C8: the total line count apply_patch_impl returns is the number of lines
\* of the file it has written (stated here for the plain edit lists only: it
\* fails on them already).
C8_TotalIsLineCount ==
    (pc = "done" /\ variant = "remote" /\ PlainEdits) =>
        result.total_lines = Len(ReadLines(file))

OtherVariant == IF variant = "remote" THEN "local" ELSE "remote"

\* C10: apply_patch and apply_patch_impl, given the same file and the same
\* validated edits, leave the same text at the target and report the same
\* total line count (stated here for the plain edit lists only: it fails on
\* them already).
C10_SameAsOtherApplier ==
    (pc = "done" /\ PlainEdits) =>
        LET other == ApplyAll(OtherVariant, orig, vresult.parsed)
        IN  /\ file = other.tmp
            /\ result.total_lines = other.total_written

\* ------------------------------------------------------------------------
\* Claims about read_file
\* ------------------------------------------------------------------------

\* C6: for 1 <= line_from <= line_to <= total_lines, when the total budget is
\* not exceeded, read_file returns line_to - line_from + 1 numbered lines: the
\* file's lines line_from..line_to (counted from 1), each with its own number.
C6_ReadsInclusiveRange ==
    (/\ pc = "read_done"
     /\ 1 <= req.line_from /\ req.line_from <= req.line_to
     /\ req.line_to <= Len(req.all_lines)
     /\ ~rd.trimmed_by_total)
    => /\ Len(rd.output_lines) = req.line_to - req.line_from + 1
       /\ \A j \in 1..Len(rd.output_lines) :
             /\ rd.output_lines[j].pos = req.line_from + j - 1
             /\ rd.output_lines[j].no = rd.output_lines[j].pos

\* what a selected line costs: max_line_tokens when it is cropped
Charge(tok) == IF tok > req.max_line_tokens THEN req.max_line_tokens ELSE tok

RECURSIVE SumTo(_, _)
\* the cost of the first k selected lines
SumTo(first, k) ==
    IF k = 0 THEN 0 ELSE SumTo(first, k - 1) + Charge(req.all_lines[first + k])

\* C7: the emitted lines are a prefix of the selected lines, what they cost
\* (a cropped line costs max_line_tokens) never exceeds
\* max_total_read_tokens, the first line that would exceed it and all later
\* lines are not emitted, and the warning then names the number after the
\* last emitted line, the number of the first line not emitted (numbers as
\* read_file prints them: line_from + i).
C7_BudgetTrim ==
    pc \in {"loop", "read_done"} =>
        LET n == Len(rd.output_lines)
            first == rd.line_from
        IN  /\ n <= SelectedLen
            /\ \A j \in 1..n : /\ rd.output_lines[j].pos = first + j
                               /\ rd.output_lines[j].no = first + j - 1
            /\ SumTo(first, n) <= req.max_total_read_tokens
            /\ rd.running_tokens = SumTo(first, n)
            /\ pc = "read_done" =>
                  /\ rd.trimmed_by_total <=> n < SelectedLen
                  /\ rd.trimmed_by_total =>
                        /\ SumTo(first, n + 1) > req.max_total_read_tokens
                        /\ rd.trimmed_at = first + n
                        /\ n > 0 => rd.trimmed_at = rd.output_lines[n].no + 1
                  /\ ~rd.trimmed_by_total => rd.trimmed_at = -1

\* a read cut by the budget after a cropped line was emitted, with a line
\* left after the one that did not fit
C7_Witness ==
    /\ pc = "read_done" /\ rd.trimmed_by_total
    /\ Len(rd.output_lines) >= 1
    /\ Len(rd.output_lines) + 1 < SelectedLen
    /\ \E j \in 1..Len(rd.output_lines) : rd.output_lines[j].cropped

\* ------------------------------------------------------------------------
\* Claims about single runs of the appliers
\* ------------------------------------------------------------------------

\* how many times the content of edit j was written to dst
TimesWritten(j) ==
    Cardinality({i \in 1..Len(log) : log[i].kind = "edit" /\ log[i].idx = j})

\* C11: in one run of an applier over a validated list, the content of each
\* edit is written exactly once when it is not empty, also for a
\* replace/delete edit that starts inside the file and ends after its last
\* line (stated here for the lists in which every edit starts at line 1 or
\* later: it fails on them already).
C11_ContentWrittenOnce ==
    (/\ pc = "done"
     /\ \A j \in 1..Len(edits) : edits[j].from >= 1)
    => \A j \in 1..Len(edits) : edits[j].content # <<>> => TimesWritten(j) = 1

\* C13: apply_patch_impl has passed every edit whose from is at most the
\* number n of lines when the last line has been streamed, so the flush
\* emits only edits with from > n; and the lines of every replace/delete
\* range inside the file are not copied (stated here for the edits with
\* 1 <= from of the lists in which every range ends inside the file or
\* starts after it: it fails on them already).
C13_NoEditBlocks ==
    (/\ variant = "remote"
     /\ \A j \in 1..Len(edits) :
           edits[j].insert \/ edits[j].to <= OrigCount \/ edits[j].from > OrigCount)
    => /\ (pc = "stream" /\ src_pos = OrigCount) =>
             \A j \in (edit_idx + 1)..Len(edits) :
                 edits[j].from >= 1 => edits[j].from > OrigCount
       /\ pc = "done" =>
             \A j \in 1..Len(edits) :
                 (~edits[j].insert /\ 1 <= edits[j].from /\ edits[j].to <= OrigCount)
                 => \A i \in 1..Len(log) :
                       ~(/\ log[i].kind = "line"
                         /\ edits[j].from <= log[i].idx
                         /\ log[i].idx <= edits[j].to)

\* ------------------------------------------------------------------------
\* Claims about read_file and apply_patch together
\* ------------------------------------------------------------------------

\* the positions (from 1) of the file's lines that read_file printed with
\* the number k in front
PrintedAs(k) ==
    {rd.output_lines[o].pos : o \in {i \in 1..Len(rd.output_lines) :
                                         rd.output_lines[i].no = k}}

\* the file in which the line at position p is replaced by content c
WithLineReplaced(p, c) ==
    LET ls == ReadLines(orig)
    IN  Flat(SubSeq(ls, 1, p - 1)) \o c \o Flat(SubSeq(ls, p + 1, Len(ls)))

\* the file in which content c stands immediately before the line at p
WithContentBefore(p, c) ==
    LET ls == ReadLines(orig)
    IN  Flat(SubSeq(ls, 1, p - 1)) \o c \o Flat(SubSeq(ls, p, Len(ls)))

\* C12: for every number k that read_file printed in front of a line, the
\* replace edit {from: k, to: k} given to validate_edits and apply_patch
\* replaces exactly that line, and the insert edit {from: k} puts its
\* content immediately before that line.
C12_SameLineNumbers ==
    (pc = "done" /\ variant = "local" /\ Len(rd.output_lines) > 0) =>
        LET e == raw.items[1]
            k == e.from.v
        IN  /\ Cardinality(PrintedAs(k)) = 1
            /\ \A p \in PrintedAs(k) :
                  /\ p \in 1..OrigCount
                  /\ file = IF e.to = Missing
                            THEN WithContentBefore(p, e.content)
                            ELSE WithLineReplaced(p, e.content)

\* a replace of a printed line other than the file's first has been applied
\* and has changed the file
C12_Witness ==
    /\ pc = "done"
    /\ variant = "local"
    /\ Len(rd.output_lines) > 0
    /\ raw.items[1].from.v >= 1
    /\ raw.items[1].to # Missing
    /\ raw.items[1].content # <<>>
    /\ file # orig

====
